---- MODULE Spec2Model ----
(***************************************************************************)
(* A model of flowtracks/io.py: the position de-duplication filter         *)
(* (mark_unique_rows), the ptv_is frame linker (trajectories_ptvis), the   *)
(* directory scans of trajectories_acc / trajectories_ptvis, the backward   *)
(* trajAcc scan (collect_particles) and the trajectory-list collector       *)
(* (collect_particles_generic).                                             *)
(*                                                                         *)
(* Arrays are sequences (1-based: numpy index i is sequence index i+1,     *)
(* except where an index is itself data, as the prev column of a ptv_is    *)
(* file, which keeps its 0-based value).  A table is what np.loadtxt       *)
(* yields for a file of n >= 0 rows, taken as an n-row 2-d array.  A       *)
(* raised Python exception is a final state pc = "error" with err naming   *)
(* the exception.                                                          *)
(***************************************************************************)
EXTENDS Integers, Sequences, FiniteSets, TLC

VARIABLES
    pc,          \* position of the running call: "start", "loop", "group", "done", "error"
    err,         \* the exception that ended the call, or "none"
    all_rows,    \* mark_unique_rows: the argument (its position columns)
    uniq,        \* mark_unique_rows: the returned index array
    fn,          \* directory scan: the function running, "acc" or "ptvis"
    listing,     \* os.listdir(dirname), in the order the OS returns it
    lix,         \* directory scan: number of names already taken from the listing
    first,       \* argument first (None: no lower limit)
    last,        \* argument last (None: no upper limit)
    loaded,      \* the frames whose data file np.loadtxt has read, in order
    frame_nums,  \* trajectories_ptvis: the list frame_nums
    xuap,        \* trajectories_ptvis: argument xuap
    frate,       \* trajectories_ptvis: argument frate
    table,       \* trajectories_ptvis: the table of the frame file read last
    frames,      \* trajectories_ptvis: the list frames
    max_traj,    \* trajectories_ptvis: the counter max_traj
    fix,         \* trajectories_ptvis: the loop index fix (frames linked after the first)
    trajects,    \* the list of Trajectory objects (returned by the linker, given to the collector)
    frame,       \* collect_particles[_generic]: argument frame
    path_seg,    \* collect_particles[_generic]: argument path_seg
    cur_frame,   \* collect_particles: the frame whose file is looked for next
    selected,    \* collect_particles[_generic]: the list selected
    result,      \* collect_particles[_generic]: the table returned
    files,       \* the trajAcc files of the directory, by frame number
    tix          \* collect_particles_generic: trajectories already visited

dedupVars == <<all_rows, uniq>>
listVars == <<fn, listing, lix, first, last, loaded>>
linkVars == <<xuap, frate, table, frames, max_traj, fix>>
collectVars == <<frame, path_seg, cur_frame, selected, result, files, tix>>
vars == <<pc, err, all_rows, uniq, fn, listing, lix, first, last, loaded, frame_nums,
          xuap, frate, table, frames, max_traj, fix, trajects,
          frame, path_seg, cur_frame, selected, result, files, tix>>

----------------------------------------------------------------------------
(* Bounds of the model.                                                    *)

\* Position coordinates of the de-duplication inputs are 0..MaxCoord.
MaxCoord == 1
\* Largest number of rows of a de-duplication input.
MaxRows == 3
\* Data files of the scanned directory carry frame numbers 0..MaxFileNum.
MaxFileNum == 3

\* The linker is given at most MaxFrames frames, numbered 1..MaxFrames.
MaxFrames == 3
\* Largest number of rows of all frame files of a linker run together.
MaxLinkRows == 3

\* The backward scan finds data files for at most MaxBack frames before the
\* target frame.
MaxBack == 1
\* Largest number of rows of a trajAcc file.
MaxFileRows == 2
\* The age column of a trajAcc row is drawn from 0..MaxAge.
MaxAge == 2

\* A directory fixed beforehand holds files for the frames 0..MaxDirBack
\* and is scanned from frame MaxDirBack.
MaxDirBack == 2
\* Largest number of rows of all files of such a directory together.
MaxDirRows == 3
\* Sample times of the trajectories given to the collector are 0..MaxTime.
MaxTime == 2
\* Largest number of trajectories given to the collector.
MaxTrajs == 2
\* Largest number of samples of these trajectories together.
MaxSamples == 4

\* Python's None as the value of first / last (frame numbers are >= 0).
None == -1

----------------------------------------------------------------------------
(* Helpers on sequences (numpy primitives).                                *)

Range(s) == {s[i] : i \in 1..Len(s)}

\* Sequences over S of length 0..n.
SeqUpTo(S, n) == UNION {[1..k -> S] : k \in 0..n}

\* a[ix] for an index array ix (1-based indices).
Take(a, ix) == [k \in 1..Len(ix) |-> a[ix[k]]]

\* The elements of s that satisfy the mask, in order (boolean-mask indexing).
RECURSIVE Mask(_, _)
Mask(s, m) ==
    IF Len(s) = 0 THEN <<>>
    ELSE LET r == Mask(Tail(s), Tail(m))
         IN IF Head(m) THEN <<Head(s)>> \o r ELSE r

\* np.nonzero(m)[0]: the (1-based) indices where the mask holds, ascending.
NonZero(m) == Mask([i \in 1..Len(m) |-> i], m)

\* ndarray.sort() of an integer array.
RECURSIVE SortAsc(_)
SortAsc(s) ==
    IF Len(s) = 0 THEN <<>>
    ELSE LET m == CHOOSE i \in 1..Len(s) : \A j \in 1..Len(s) : s[i] <= s[j]
         IN <<s[m]>> \o SortAsc([k \in 1..(Len(s) - 1) |-> IF k < m THEN s[k] ELSE s[k + 1]])

----------------------------------------------------------------------------
(* mark_unique_rows                                                        *)

\* The order np.lexsort imposes on position triples: the last key (column 2)
\* is the primary one, then column 1, then column 0.
LexLess(a, b) ==
    \/ a[3] < b[3]
    \/ a[3] = b[3] /\ a[2] < b[2]
    \/ a[3] = b[3] /\ a[2] = b[2] /\ a[1] < b[1]

\* Insert index i in the index array s, sorted by LexLess on P, after every
\* index whose row does not come later (a stable sort).
RECURSIVE InsertIdx(_, _, _)
InsertIdx(P, s, i) ==
    IF Len(s) = 0 THEN <<i>>
    ELSE IF LexLess(P[i], P[Head(s)]) THEN <<i>> \o s
    ELSE <<Head(s)>> \o InsertIdx(P, Tail(s), i)

RECURSIVE LexSortUpTo(_, _)
LexSortUpTo(P, n) ==
    IF n = 0 THEN <<>> ELSE InsertIdx(P, LexSortUpTo(P, n - 1), n)

\* A plausible slip: no sort at all, the rows are compared in file order.
lexsort_unsorted(P) == [i \in 1..Len(P) |-> i]

\* srt = np.lexsort(all_rows[:,:3].T)
lexsort(P) == LexSortUpTo(P, Len(P))

\* diff = np.diff(all_rows[srt,:3], axis=0).any(axis=1)
RowDiff(P, srt) == [k \in 1..(Len(srt) - 1) |-> P[srt[k + 1]] # P[srt[k]]]

\* mark_unique_rows(all_rows) for a non-empty table, P its position columns
\* (srt[0] raises IndexError on an empty one: see the callers).
mark_unique_rows(P) ==
    LET srt  == lexsort(P)
        diff == RowDiff(P, srt)
    IN SortAsc(<<srt[1]>> \o Mask(Tail(srt), diff))

----------------------------------------------------------------------------
(* The values of the variables of the functions that are not running.     *)

IdleDedup == all_rows = <<>> /\ uniq = <<>>

IdleList ==
    /\ fn = "none" /\ listing = <<>> /\ lix = 0
    /\ first = None /\ last = None /\ loaded = <<>>

IdleLink ==
    /\ xuap = FALSE /\ frate = 1 /\ table = <<>> /\ frames = <<>>
    /\ max_traj = 0 /\ fix = 0

IdleCollect ==
    /\ frame = 0 /\ path_seg = FALSE /\ cur_frame = 0 /\ selected = <<>>
    /\ result = <<>> /\ files = <<>> /\ tix = 0

----------------------------------------------------------------------------
(* The de-duplication filter applied to an arbitrary non-empty table.      *)

Coord == 0..MaxCoord
Triples == Coord \X Coord \X Coord

InitDedup ==
    /\ pc = "start"
    /\ err = "none"
    /\ all_rows \in SeqUpTo(Triples, MaxRows) \ {<<>>}
    /\ uniq = <<>>
    /\ IdleList /\ frame_nums = <<>> /\ IdleLink /\ trajects = <<>> /\ IdleCollect

DedupCall ==
    /\ pc = "start"
    /\ uniq' = mark_unique_rows(all_rows)
    /\ pc' = "done"
    /\ UNCHANGED <<err, all_rows, listVars, frame_nums, linkVars, trajects, collectVars>>

NextDedup == DedupCall

SpecDedup == InitDedup /\ [][NextDedup]_vars

\* C1: for every non-empty table the returned index array is strictly
\* ascending, the selected position triples are pairwise distinct, every
\* distinct input triple is the triple of exactly one selected row, and
\* applying the filter to the selected rows selects every one of them.
C1_Dedup ==
    pc = "done" =>
        /\ \A k \in 1..Len(uniq) : uniq[k] \in 1..Len(all_rows)
        /\ \A k \in 1..(Len(uniq) - 1) : uniq[k] < uniq[k + 1]
        /\ \A j, k \in 1..Len(uniq) : j # k => all_rows[uniq[j]] # all_rows[uniq[k]]
        /\ \A i \in 1..Len(all_rows) :
              Cardinality({k \in 1..Len(uniq) : all_rows[uniq[k]] = all_rows[i]}) = 1
        /\ mark_unique_rows(Take(all_rows, uniq)) = [k \in 1..Len(uniq) |-> k]

\* A table with a repeated triple whose copies are not adjacent, filtered.
C1_Witness ==
    /\ pc = "done"
    /\ Len(all_rows) = 3
    /\ all_rows[1] = all_rows[3]
    /\ all_rows[1] # all_rows[2]
    /\ LexLess(all_rows[2], all_rows[1])
    /\ uniq = <<1, 2>>

----------------------------------------------------------------------------
(* The directory scans of trajectories_acc and trajectories_ptvis.         *)

\* A name of the listing: a data file of frame `frame` (is_data_file matches)
\* or some other file.
DataFile(f) == [match |-> TRUE, frame |-> f]
OtherFile == [match |-> FALSE, frame |-> 0]
FileNames == {DataFile(f) : f \in 0..MaxFileNum} \cup {OtherFile}

\* The listings: every order of every set of names.
Listings == {s \in SeqUpTo(FileNames, Cardinality(FileNames)) :
                \A i, j \in 1..Len(s) : i # j => s[i] # s[j]}

InitList ==
    /\ pc = "list"
    /\ err = "none"
    /\ fn \in {"acc", "ptvis"}
    /\ listing \in Listings
    /\ lix = 0
    /\ first \in {None} \cup 0..MaxFileNum
    /\ last \in {None} \cup 0..MaxFileNum
    /\ loaded = <<>>
    /\ frame_nums = <<>>
    /\ IdleDedup /\ IdleLink /\ trajects = <<>> /\ IdleCollect

\* trajectories_acc, one pass of `for fname in os.listdir(dirname)`: the
\* file is skipped, ends the loop (break) or is loaded.
AccListStep ==
    /\ pc = "list" /\ fn = "acc"
    /\ lix < Len(listing)
    /\ LET name == listing[lix + 1]
       IN IF ~name.match THEN
               /\ lix' = lix + 1 /\ UNCHANGED <<pc, loaded>>
          ELSE IF first # None /\ name.frame < first THEN
               /\ lix' = lix + 1 /\ UNCHANGED <<pc, loaded>>
          ELSE IF last # None /\ name.frame >= last THEN
               /\ pc' = "done" /\ UNCHANGED <<lix, loaded>>
          ELSE /\ loaded' = Append(loaded, name.frame)
               /\ lix' = lix + 1 /\ UNCHANGED pc
    /\ UNCHANGED <<err, dedupVars, linkVars, trajects, collectVars, fn, listing, first, last, frame_nums>>

\* trajectories_acc: the listing is exhausted, the trajectories are returned.
AccListEnd ==
    /\ pc = "list" /\ fn = "acc"
    /\ lix = Len(listing)
    /\ pc' = "done"
    /\ UNCHANGED <<err, dedupVars, linkVars, trajects, collectVars, listVars, frame_nums>>

\* trajectories_ptvis, one pass of `for name in os.listdir(dirname)`.
PtvisListStep ==
    /\ pc = "list" /\ fn = "ptvis"
    /\ lix < Len(listing)
    /\ LET name == listing[lix + 1]
       IN IF ~name.match THEN
               /\ lix' = lix + 1 /\ UNCHANGED <<pc, frame_nums>>
          ELSE IF first # None /\ name.frame < first THEN
               /\ lix' = lix + 1 /\ UNCHANGED <<pc, frame_nums>>
          ELSE IF last # None /\ name.frame > last THEN
               /\ pc' = "sort" /\ UNCHANGED <<lix, frame_nums>>
          ELSE /\ frame_nums' = Append(frame_nums, name.frame)
               /\ lix' = lix + 1 /\ UNCHANGED pc
    /\ UNCHANGED <<err, dedupVars, linkVars, trajects, collectVars, fn, listing, first, last, loaded>>

PtvisListEnd ==
    /\ pc = "list" /\ fn = "ptvis"
    /\ lix = Len(listing)
    /\ pc' = "sort"
    /\ UNCHANGED <<err, dedupVars, linkVars, trajects, collectVars, listVars, frame_nums>>

\* trajectories_ptvis: frame_nums.sort(), then the file of every collected
\* frame is loaded, frame_nums[0] first (IndexError when there is none).
PtvisSortLoad ==
    /\ pc = "sort"
    /\ frame_nums' = SortAsc(frame_nums)
    /\ IF Len(frame_nums) = 0
       THEN pc' = "error" /\ err' = "IndexError" /\ UNCHANGED loaded
       ELSE pc' = "done" /\ loaded' = SortAsc(frame_nums) /\ UNCHANGED err
    /\ UNCHANGED <<dedupVars, linkVars, trajects, collectVars, fn, listing, lix, first, last>>

NextList ==
    \/ AccListStep
    \/ AccListEnd
    \/ PtvisListStep
    \/ PtvisListEnd
    \/ PtvisSortLoad

SpecList == InitList /\ [][NextList]_vars

\* The frames of the directory's data files.
ListedFrames == {listing[i].frame : i \in {j \in 1..Len(listing) : listing[j].match}}

\* C7: with first and last given, the data files read are exactly those of
\* the frames f with first <= f <= last, whatever the order of the listing.
C7_ReadsInclusiveRange ==
    (pc \in {"done", "error"} /\ first # None /\ last # None) =>
        Range(loaded) = {f \in ListedFrames : first <= f /\ f <= last}

----------------------------------------------------------------------------
(* trajectories_ptvis: linking the frames, velocities, trajectories.       *)

Zero3 == <<0, 0, 0>>
VecSub(a, b) == <<a[1] - b[1], a[2] - b[2], a[3] - b[3]>>
VecScale(a, k) == <<a[1] * k, a[2] * k, a[3] * k>>
\* pos /= 1000. (the positions of the files are multiples of 1000)
VecDiv1000(a) == <<a[1] \div 1000, a[2] \div 1000, a[3] \div 1000>>

\* Positions as a ptv_is file gives them, and the velocity column of an
\* xuap file.
RawPositions == {<<0, 0, 0>>, <<1000, 2000, 3000>>}
XuapVelocities == {<<4, 5, 6>>}
FrameRates == {1, 2}

\* count_base: 1 for the xuap format, 0 for ptv_is.
count_base == IF xuap THEN 1 ELSE 0

\* A row of a frame file as np.loadtxt yields it with dtype fmt (the field
\* vel is only there in the xuap format: it is never read otherwise).
PtvRow(p, x, v) == [prev |-> p, pos |-> x, vel |-> v]
\* The rows a frame file may hold when the preceding frame has n rows: prev
\* is -1, the sentinel of the format, an index of each of the n rows or the
\* first index beyond them.
PtvRows(n) == {PtvRow(p, x, v) : p \in (-1)..(n + count_base), x \in RawPositions,
                                 v \in IF xuap THEN XuapVelocities ELSE {Zero3}}
\* The rows of the first frame: its prev column is never read.
FirstPtvRows == {r \in PtvRows(0) : r.prev = -1}

\* Rows held by the frames linked so far.
RowsHeld == IF Len(frames) = 0 THEN 0
            ELSE LET RECURSIVE Sum(_)
                     Sum(k) == IF k = 0 THEN 0 ELSE Len(frames[k]) + Sum(k - 1)
                 IN Sum(Len(frames))

\* The strictly ascending sequences of frame numbers (frame_nums after sort).
RECURSIVE AscSeqOf(_)
AscSeqOf(S) ==
    IF S = {} THEN <<>>
    ELSE LET m == CHOOSE x \in S : \A y \in S : x <= y
         IN <<m>> \o AscSeqOf(S \ {m})
FrameNumLists == {AscSeqOf(S) : S \in SUBSET (1..MaxFrames)}

\* pos = table['pos']; if not xuap: pos /= 1000.
ScaledPos(r) == IF xuap THEN r.pos ELSE VecDiv1000(r.pos)
\* vel = table['vel'] if 'vel' in fmt.fields else np.zeros_like(pos)
InitialVel(r) == IF xuap THEN r.vel ELSE Zero3

\* A row of a frame: np.hstack((pos, vel, t, traj)).
FrameRow(x, v, t, id) == [pos |-> x, vel |-> v, t |-> t, traj |-> id]

\* cont = table['prev'] - count_base > -1
Cont(tbl) == [i \in 1..Len(tbl) |-> tbl[i].prev - count_base > -1]
\* table['prev'][i] - count_base, the 0-based row of the preceding frame
PrevIx(tbl, i) == tbl[i].prev - count_base
\* Rows before row i (exclusive) that do not continue a trajectory.
NewBefore(tbl, i) == Cardinality({k \in 1..(i - 1) : ~Cont(tbl)[k]})
\* num_new_traj = np.sum(~cont)
NumNew(tbl) == Cardinality({k \in 1..Len(tbl) : ~Cont(tbl)[k]})

\* A plausible slip: the counter is not advanced.
NextMaxTrajStuck(mt, tbl) == mt

\* max_traj += num_new_traj
NextMaxTraj(mt, tbl) == mt + NumNew(tbl)

\* traj: the id of the row continued (frames[fix][:,-1][prev_ix]), or the
\* next new id (np.arange(max_traj, max_traj + num_new_traj)).
TrajIds(tbl, prevframe, mt) ==
    [i \in 1..Len(tbl) |->
        IF Cont(tbl)[i] THEN prevframe[PrevIx(tbl, i) + 1].traj
        ELSE mt + NewBefore(tbl, i)]

\* frames[fix][:,-1][prev_ix] raises IndexError: a continuing row points
\* beyond the preceding frame's last row.
PrevOutOfBounds(tbl, prevframe) ==
    \E i \in 1..Len(tbl) : Cont(tbl)[i] /\ PrevIx(tbl, i) >= Len(prevframe)

\* The continuing rows of tbl that point to row j (1-based) of the
\* preceding frame.
Successors(tbl, j) == {i \in 1..Len(tbl) : Cont(tbl)[i] /\ PrevIx(tbl, i) + 1 = j}

\* frames[fix][prev_ix,3:6] = (pos[cont] - frames[fix][prev_ix,:3]) * frate.
\* w[j] is the row of tbl whose value row j of the preceding frame ends
\* with: numpy leaves open which assignment stays when an index repeats.
Backfill(prevframe, tbl, w) ==
    [j \in 1..Len(prevframe) |->
        IF Successors(tbl, j) = {} THEN prevframe[j]
        ELSE [prevframe[j] EXCEPT
                 !.vel = VecScale(VecSub(ScaledPos(tbl[w[j]]), prevframe[j].pos), frate)]]

\* The choices of w.
BackfillChoices(prevframe, tbl) ==
    {w \in [1..Len(prevframe) -> 0..Len(tbl)] :
        \A j \in 1..Len(prevframe) :
            IF Successors(tbl, j) = {} THEN w[j] = 0 ELSE w[j] \in Successors(tbl, j)}

InitLinker ==
    /\ pc = "first"
    /\ err = "none"
    /\ frame_nums \in FrameNumLists
    /\ xuap \in BOOLEAN
    /\ frate \in FrameRates
    /\ table = <<>> /\ frames = <<>> /\ max_traj = 0 /\ fix = 0 /\ trajects = <<>>
    /\ IdleDedup /\ IdleList /\ IdleCollect

\* The first frame (lines 190-205): every row starts a trajectory.
\* frame_nums[0] raises IndexError when no frame was collected.
LinkFirst ==
    /\ pc = "first"
    /\ IF Len(frame_nums) = 0
       THEN /\ pc' = "error" /\ err' = "IndexError"
            /\ UNCHANGED <<table, frames, max_traj>>
       ELSE \E tbl \in SeqUpTo(FirstPtvRows, MaxLinkRows) :
            /\ table' = tbl
            /\ frames' = <<[i \in 1..Len(tbl) |->
                  FrameRow(ScaledPos(tbl[i]), InitialVel(tbl[i]), frame_nums[1], i - 1)]>>
            /\ max_traj' = Len(tbl)
            /\ pc' = "loop"
            /\ UNCHANGED err
    /\ UNCHANGED <<dedupVars, listVars, collectVars, frame_nums, xuap, frate, fix, trajects>>

\* One pass of `for fix, frame_num in enumerate(frame_nums[1:])`.
LinkFrame ==
    /\ pc = "loop"
    /\ fix + 1 < Len(frame_nums)
    /\ \E tbl \in SeqUpTo(PtvRows(Len(frames[fix + 1])), MaxLinkRows - RowsHeld) :
        LET prevframe == frames[fix + 1]
            frame_num == frame_nums[fix + 2]
        IN /\ table' = tbl
           /\ IF PrevOutOfBounds(tbl, prevframe)
              THEN /\ pc' = "error" /\ err' = "IndexError"
                   /\ UNCHANGED <<frames, max_traj, fix>>
              ELSE \E w \in BackfillChoices(prevframe, tbl) :
                   LET traj == TrajIds(tbl, prevframe, max_traj)
                       new_frame == [i \in 1..Len(tbl) |->
                                   FrameRow(ScaledPos(tbl[i]), InitialVel(tbl[i]),
                                            frame_num, traj[i])]
                       linked == IF xuap THEN frames
                                 ELSE [frames EXCEPT ![fix + 1] = Backfill(prevframe, tbl, w)]
                   IN /\ frames' = Append(linked, new_frame)
                      /\ max_traj' = NextMaxTraj(max_traj, tbl)
                      /\ fix' = fix + 1
                      /\ UNCHANGED <<pc, err>>
    /\ UNCHANGED <<dedupVars, listVars, collectVars, frame_nums, xuap, frate, trajects>>

\* np.unique(frame[:,-1]): the ids of a frame, ascending.
UniqueIds(fr) == AscSeqOf({fr[i].traj : i \in 1..Len(fr)})

\* frame[frame[:,-1] == tix][0]: the first row of the frame with that id.
FirstWithId(fr, id) ==
    fr[CHOOSE i \in 1..Len(fr) :
            /\ fr[i].traj = id
            /\ \A k \in 1..(i - 1) : fr[k].traj # id]

\* trajects[tix] after the frames 1..k were walked (lines 239-242).
RECURSIVE Grouped(_, _, _)
Grouped(frs, id, k) ==
    IF k = 0 THEN <<>>
    ELSE IF id \in Range(UniqueIds(frs[k]))
         THEN Append(Grouped(frs, id, k - 1), FirstWithId(frs[k], id))
         ELSE Grouped(frs, id, k - 1)

\* Trajectory(traj[:,:3], traj[:,3:6], traj[:,6], traj[0,7])
MakeTrajectory(rows) ==
    [trajid |-> rows[1].traj,
     rows |-> [k \in 1..Len(rows) |-> [pos |-> rows[k].pos, vel |-> rows[k].vel, t |-> rows[k].t]]]

\* From the time series to the list of trajectories (lines 238-246);
\* traj[:,:3] raises IndexError on a trajectory without rows.
LinkGroup ==
    /\ pc = "loop"
    /\ fix + 1 = Len(frame_nums)
    /\ LET lists == [tr \in 1..max_traj |-> Grouped(frames, tr - 1, Len(frames))]
       IN IF \E tr \in 1..max_traj : Len(lists[tr]) = 0
          THEN pc' = "error" /\ err' = "IndexError" /\ UNCHANGED trajects
          ELSE /\ trajects' = [tr \in 1..max_traj |-> MakeTrajectory(lists[tr])]
               /\ pc' = "done"
               /\ UNCHANGED err
    /\ UNCHANGED <<dedupVars, listVars, collectVars, frame_nums, xuap, frate, table, frames, max_traj, fix>>

NextLinker ==
    \/ LinkFirst
    \/ LinkFrame
    \/ LinkGroup

SpecLinker == InitLinker /\ [][NextLinker]_vars

----------------------------------------------------------------------------
(* The linker's properties.                                                *)

\* The trajectory ids held by the rows of the frames 1..k.
IdsUpTo(k) == UNION {{frames[f][i].traj : i \in 1..Len(frames[f])} : f \in 1..k}

\* The trajectory ids held by the rows of one frame.
IdsOf(fr) == {fr[i].traj : i \in 1..Len(fr)}

\* The rows of frame k that carry an id no earlier frame holds, in row order.
NewRowsOf(k) == NonZero([i \in 1..Len(frames[k]) |-> frames[k][i].traj \notin IdsUpTo(k - 1)])

\* C2: the ids assigned are exactly 0..max_traj-1; the rows of the first
\* frame carry 0..n-1; a row of a later frame carries the id of the row of
\* the preceding frame its prev index points to, or an id no earlier row
\* carries, the new ids of a frame counting up from the number of ids
\* assigned before it.
C2_LinkerIds ==
    pc \in {"loop", "done"} =>
        /\ IdsUpTo(Len(frames)) = 0..(max_traj - 1)
        /\ \A i \in 1..Len(frames[1]) : frames[1][i].traj = i - 1
        /\ \A k \in 2..Len(frames) :
              /\ \A i \in 1..Len(frames[k]) :
                    \/ frames[k][i].traj \in IdsOf(frames[k - 1])
                    \/ frames[k][i].traj \notin IdsUpTo(k - 1)
              /\ \A n \in 1..Len(NewRowsOf(k)) :
                    frames[k][NewRowsOf(k)[n]].traj = Cardinality(IdsUpTo(k - 1)) + n - 1
        /\ fix >= 1 =>
              \A i \in 1..Len(table) :
                 IF Cont(table)[i]
                 THEN frames[fix + 1][i].traj = frames[fix][PrevIx(table, i) + 1].traj
                 ELSE frames[fix + 1][i].traj \notin IdsUpTo(fix)

\* Three frames linked: the second continues the first frame's row, the
\* third holds a continuing row and a row that starts a trajectory.
C2_Witness ==
    /\ pc = "done"
    /\ Len(frames) = 3
    /\ Len(frames[1]) = 1 /\ Len(frames[2]) = 1 /\ Len(frames[3]) = 1
    /\ frames[2][1].traj = 0
    /\ frames[3][1].traj = 1
    /\ max_traj = 2

\* C3: without a velocity column, every sample of a returned trajectory that
\* has a following sample has velocity (next position - position) * frate,
\* and the last sample of every trajectory has velocity zero.
C3_VelocityBackfill ==
    (pc = "done" /\ ~xuap) =>
        \A tr \in 1..Len(trajects) :
            LET rows == trajects[tr].rows
            IN /\ \A k \in 1..(Len(rows) - 1) :
                     rows[k].vel = VecScale(VecSub(rows[k + 1].pos, rows[k].pos), frate)
               /\ rows[Len(rows)].vel = Zero3

\* C9: a row continues a trajectory only if its prev index, less the base
\* offset, is a row index of the preceding frame; every other row starts a
\* new trajectory, and linking ends without an error.
C9_InvalidPrevStartsNew ==
    /\ (pc = "error" => Len(frame_nums) = 0)
    /\ (pc = "loop" /\ fix >= 1) =>
          \A i \in 1..Len(table) :
             IF PrevIx(table, i) \in 0..(Len(frames[fix]) - 1)
             THEN frames[fix + 1][i].traj = frames[fix][PrevIx(table, i) + 1].traj
             ELSE frames[fix + 1][i].traj \notin IdsUpTo(fix)

----------------------------------------------------------------------------
(* collect_particles: the backward scan over the trajAcc files.            *)

\* Positions of the rows of trajAcc files and of trajectory samples.
Positions == {<<0, 0, 0>>, <<1, 2, 3>>}

\* A row of a trajAcc file: columns 0-2 (pos) and 33 (age, the frames since
\* the trajectory began).  Columns 3-5 are copied along and never read.
\* `at` is no column: it is the frame of the file and the (0-based) line the
\* row stands on, kept so that a selected row tells where it came from.
AccRow(x, a) == [pos |-> x, age |-> a]
AccRows == {AccRow(x, a) : x \in Positions, a \in 0..MaxAge}
\* The contents a data file may have.
FileContents == SeqUpTo(AccRows, MaxFileRows)
\* What fname_tmpl % cur_frame names: a file with rows, or nothing.
ExistingFile(rows) == [exists |-> TRUE, rows |-> rows]
NoFile == [exists |-> FALSE, rows |-> <<>>]

\* table = np.loadtxt(fname_tmpl % cur_frame, usecols=(0,1,2,3,4,5,33))
LoadTable(file, f) ==
    [i \in 1..Len(file.rows) |->
        [pos |-> file.rows[i].pos, age |-> file.rows[i].age, at |-> <<f, i - 1>>]]

\* np.roll(table[:,-1], -1)[i]: the age of the next row, the first row's
\* for the last row.
RolledAge(tbl, i) == IF i < Len(tbl) THEN tbl[i + 1].age ELSE tbl[1].age

\* segs = np.nonzero((table[:,-1] == path_age) &
\*     (np.roll(table[:,-1], -1) == path_age + 1))[0]       (1-based here)
Segs(tbl, path_age) ==
    NonZero([i \in 1..Len(tbl) |->
                tbl[i].age = path_age /\ RolledAge(tbl, i) = path_age + 1])

\* table[segs + 1,:] raises IndexError: the last row is selected.
SegsOutOfBounds(tbl, segs) == \E k \in 1..Len(segs) : segs[k] + 1 > Len(tbl)

\* in_frame of segment mode: the two layers table[segs,:], table[segs + 1,:].
SegPairs(tbl, segs) ==
    <<Take(tbl, segs), [k \in 1..Len(segs) |-> tbl[segs[k] + 1]]>>

\* in_frame = table[table[:,-1] == path_age]
RowsOfAge(tbl, path_age) == Mask(tbl, [i \in 1..Len(tbl) |-> tbl[i].age = path_age])

\* in_frame.shape[0]: the number of layers of a segment table, the number
\* of rows otherwise.
Shape0(in_frame) == IF path_seg THEN 2 ELSE Len(in_frame)

\* np.vstack(selected) of row tables.
RECURSIVE VStack(_)
VStack(sel) == IF Len(sel) = 0 THEN <<>> ELSE Head(sel) \o VStack(Tail(sel))

\* np.concatenate(selected, axis=1) of two-layer tables.
ConcatLayers(sel) ==
    <<VStack([k \in 1..Len(sel) |-> sel[k][1]]), VStack([k \in 1..Len(sel) |-> sel[k][2]])>>

\* all_rows[:,:3]
PosCols(rows) == [i \in 1..Len(rows) |-> rows[i].pos]

\* A plausible slip: the index array is applied to the first layer alone.
TakeLayersFirstOnly(layers, ix) == <<Take(layers[1], ix), layers[2]>>

\* all_rows[:,ix] of a two-layer table.
TakeLayers(layers, ix) == <<Take(layers[1], ix), Take(layers[2], ix)>>

\* The frame whose file is the last one the scan may find: no data file
\* carries a smaller number.
LowestFrame == frame - MaxBack

\* One pass of `while os.path.exists(fname_tmpl % cur_frame)` (lines 41-58),
\* file being what the name resolves to; or the end of the loop.
ScanStep(file) ==
    /\ pc = "scan"
    /\ IF ~file.exists
       THEN pc' = "collect" /\ UNCHANGED <<err, cur_frame, selected, loaded>>
       ELSE LET tbl == LoadTable(file, cur_frame)
                path_age == frame - cur_frame
                segs == Segs(tbl, path_age)
                in_frame == IF path_seg THEN SegPairs(tbl, segs)
                            ELSE RowsOfAge(tbl, path_age)
            IN /\ loaded' = Append(loaded, cur_frame)
               /\ IF path_seg /\ SegsOutOfBounds(tbl, segs)
                  THEN pc' = "error" /\ err' = "IndexError"
                       /\ UNCHANGED <<cur_frame, selected>>
                  ELSE IF Shape0(in_frame) = 0
                  THEN pc' = "collect" /\ UNCHANGED <<err, cur_frame, selected>>
                  ELSE /\ selected' = Append(selected, in_frame)
                       /\ cur_frame' = cur_frame - 1
                       /\ UNCHANGED <<pc, err>>
    /\ UNCHANGED <<dedupVars, fn, listing, lix, first, last, frame_nums, linkVars,
                   trajects, frame, path_seg, result, files, tix>>

\* The scan over a directory whose files are whatever they are when the
\* scan opens them.
ScanOpen ==
    /\ pc = "scan"
    /\ \E file \in {NoFile} \cup {ExistingFile(rows) : rows \in FileContents} :
        /\ cur_frame < LowestFrame => ~file.exists
        /\ ScanStep(file)

\* The scan over the directory `files`.
ScanOpenDir ==
    ScanStep(IF cur_frame + 1 \in DOMAIN files THEN files[cur_frame + 1] ELSE NoFile)

\* After the loop (lines 60-65): the selected tables are joined and
\* de-duplicated.  np.concatenate / np.vstack raise ValueError on an empty
\* list; mark_unique_rows raises IndexError (srt[0]) on a table without rows.
ScanCollect ==
    /\ pc = "collect"
    /\ IF Len(selected) = 0
       THEN pc' = "error" /\ err' = "ValueError" /\ UNCHANGED result
       ELSE LET all == IF path_seg THEN ConcatLayers(selected) ELSE VStack(selected)
                keyrows == IF path_seg THEN all[1] ELSE all
            IN IF Len(keyrows) = 0
               THEN pc' = "error" /\ err' = "IndexError" /\ UNCHANGED result
               ELSE /\ result' = IF path_seg
                                 THEN TakeLayers(all, mark_unique_rows(PosCols(keyrows)))
                                 ELSE Take(all, mark_unique_rows(PosCols(keyrows)))
                    /\ pc' = "done"
                    /\ UNCHANGED err
    /\ UNCHANGED <<dedupVars, listVars, frame_nums, linkVars,
                   trajects, frame, path_seg, cur_frame, selected, files, tix>>

----------------------------------------------------------------------------
(* collect_particles_generic: the particles of a frame, from trajectories. *)

\* A Trajectory object: its id and its samples, in the order held.
Trajectory(id, rows) == [trajid |-> id, rows |-> rows]
Sample(x, v, t) == [pos |-> x, vel |-> v, t |-> t]

\* traj.time()
TrajTime(traj) == [k \in 1..Len(traj.rows) |-> traj.rows[k].t]

\* traj[k]: the row (position, velocity, frame number, trajectory id) of
\* sample k (1-based).
TrajItem(traj, k) ==
    FrameRow(traj.rows[k].pos, traj.rows[k].vel, traj.rows[k].t, traj.trajid)

\* np.roll(traj.time(), -1)[k]
RolledTime(times, k) == IF k < Len(times) THEN times[k + 1] ELSE times[1]

\* A plausible slip: the time of the following sample is not looked at.
SegStartsAnySuccessor(times, f) == NonZero([k \in 1..Len(times) |-> times[k] = f])

\* np.nonzero((traj.time() == frame) & (np.roll(traj.time(), -1) == frame + 1))[0]
SegStarts(times, f) ==
    NonZero([k \in 1..Len(times) |-> times[k] = f /\ RolledTime(times, k) = f + 1])

\* np.nonzero(traj.time() == frame)[0]
TimeHits(times, f) == NonZero([k \in 1..Len(times) |-> times[k] = f])

\* The sample sequences with strictly increasing times in 0..MaxTime.
SampleSeqs ==
    UNION {{[k \in 1..Cardinality(S) |-> Sample(x[k], Zero3, AscSeqOf(S)[k])] :
               x \in [1..Cardinality(S) -> Positions]} :
           S \in (SUBSET (0..MaxTime)) \ {{}}}

\* The lists of at most n sample sequences with at most b samples together.
RECURSIVE SampleSeqLists(_, _)
SampleSeqLists(n, b) ==
    IF n = 0 THEN {<<>>}
    ELSE {<<>>} \cup
         UNION {{<<ss>> \o l : l \in SampleSeqLists(n - 1, b - Len(ss))} :
                ss \in {x \in SampleSeqs : Len(x) <= b}}

\* The lists of at most n trajectories with at most b samples together:
\* the id of a trajectory is its place in the list.
TrajectoryLists(n, b) ==
    {[i \in 1..Len(l) |-> Trajectory(i - 1, l[i])] : l \in SampleSeqLists(n, b)}

\* One pass of `for traj in trajects` (lines 327-341).  traj[t : t + 2]
\* holds two samples unless t is the last index, which it is not for
\* strictly increasing times; a slice of one sample is not a segment.
GenericVisit ==
    /\ pc = "visit"
    /\ tix < Len(trajects)
    /\ LET traj == trajects[tix + 1]
           t == IF path_seg THEN SegStarts(TrajTime(traj), frame)
                ELSE TimeHits(TrajTime(traj), frame)
       IN IF Len(t) = 0
          THEN UNCHANGED <<pc, err, selected>>
          ELSE IF ~path_seg
          THEN selected' = Append(selected, TrajItem(traj, t[1])) /\ UNCHANGED <<pc, err>>
          ELSE IF t[1] = Len(traj.rows)
          THEN pc' = "error" /\ err' = "MalformedSegment" /\ UNCHANGED selected
          ELSE /\ selected' = Append(selected,
                     <<(<<TrajItem(traj, t[1])>>), (<<TrajItem(traj, t[1] + 1)>>)>>)
               /\ UNCHANGED <<pc, err>>
    /\ tix' = tix + 1
    /\ UNCHANGED <<dedupVars, listVars, frame_nums, linkVars, trajects,
                   frame, path_seg, cur_frame, result, files>>

\* After the loop (lines 343-351).
GenericCollect ==
    /\ pc = "visit"
    /\ tix = Len(trajects)
    /\ result' =
          IF Len(selected) = 0 THEN <<(<<>>), (<<>>)>>
          ELSE IF path_seg
          THEN LET all == ConcatLayers(selected)
               IN TakeLayers(all, mark_unique_rows(PosCols(all[1])))
          ELSE Take(selected, mark_unique_rows(PosCols(selected)))
    /\ pc' = "done"
    /\ UNCHANGED <<err, dedupVars, listVars, frame_nums, linkVars, trajects,
                   frame, path_seg, cur_frame, selected, files, tix>>

----------------------------------------------------------------------------
(* The two collectors, called with any target and any data.                *)

InitCollect ==
    /\ err = "none"
    /\ fn \in {"collect_particles", "collect_particles_generic"}
    /\ selected = <<>> /\ result = <<>> /\ files = <<>> /\ tix = 0
    /\ IF fn = "collect_particles"
       THEN /\ pc = "scan"
            /\ frame = MaxBack
            /\ trajects = <<>>
       ELSE /\ pc = "visit"
            /\ trajects \in TrajectoryLists(MaxTrajs, MaxSamples)
            /\ frame \in 0..MaxTime
    /\ path_seg \in BOOLEAN
    /\ cur_frame = frame
    /\ listing = <<>> /\ lix = 0 /\ first = None /\ last = None /\ loaded = <<>>
    /\ frame_nums = <<>>
    /\ IdleDedup /\ IdleLink

NextCollect ==
    \/ ScanOpen
    \/ ScanCollect
    \/ GenericVisit
    \/ GenericCollect

SpecCollect == InitCollect /\ [][NextCollect]_vars

\* The directories of n frames, 0..n-1, with at most b rows together: for
\* each frame a file or none (the file of frame f is element f + 1).
RECURSIVE DirectoriesOf(_, _)
DirectoriesOf(n, b) ==
    IF n = 0 THEN {<<>>}
    ELSE UNION {{<<file>> \o d : d \in DirectoriesOf(n - 1, b - Len(file.rows))} :
                file \in {NoFile} \cup {ExistingFile(rows) : rows \in SeqUpTo(AccRows, b)}}

\* collect_particles called on a directory that is fixed beforehand.
InitScanDir ==
    /\ pc = "scan"
    /\ err = "none"
    /\ fn = "collect_particles"
    /\ path_seg \in BOOLEAN
    /\ frame = MaxDirBack
    /\ cur_frame = frame
    /\ files \in DirectoriesOf(MaxDirBack + 1, MaxDirRows)
    /\ selected = <<>> /\ result = <<>> /\ tix = 0 /\ trajects = <<>>
    /\ listing = <<>> /\ lix = 0 /\ first = None /\ last = None /\ loaded = <<>>
    /\ frame_nums = <<>>
    /\ IdleDedup /\ IdleLink

NextScanDir ==
    \/ ScanOpenDir
    \/ ScanCollect

SpecScanDir == InitScanDir /\ [][NextScanDir]_vars

----------------------------------------------------------------------------
(* The collectors' properties.                                             *)

\* Trajectory tr holds frame f and f + 1 at adjacent sample indices.
Adjacent(tr, f) ==
    \E k \in 1..(Len(tr.rows) - 1) : tr.rows[k].t = f /\ tr.rows[k + 1].t = f + 1

\* The row of trajectory tr at time f.
RowAt(tr, f) == TrajItem(tr, CHOOSE k \in 1..Len(tr.rows) : tr.rows[k].t = f)

\* C4: in the two-layer table of segment mode, row i of layer 1 is the state
\* one frame after row i of layer 0 of the same trajectory: from files, the
\* row on the next line of the same file, one frame older than a row of
\* the age the target frame asks for; from trajectories, the same
\* trajectory's sample at frame + 1.
C4_SegmentLayersAligned ==
    (pc = "done" /\ path_seg) =>
        /\ Len(result) = 2
        /\ Len(result[1]) = Len(result[2])
        /\ \A i \in 1..Len(result[1]) :
              IF fn = "collect_particles"
              THEN /\ result[1][i].age = frame - result[1][i].at[1]
                   /\ result[2][i].age = result[1][i].age + 1
                   /\ result[2][i].at = <<result[1][i].at[1], result[1][i].at[2] + 1>>
              ELSE /\ result[1][i].t = frame
                   /\ result[2][i].t = result[1][i].t + 1
                   /\ result[2][i].traj = result[1][i].traj

\* Segments of two files with the same first position: one is dropped, and
\* the row left in layer 1 is the one paired with the row left in layer 0.
C4_Witness ==
    /\ pc = "done" /\ path_seg /\ fn = "collect_particles"
    /\ Len(selected) = 2
    /\ Len(selected[1][1]) = 1 /\ Len(selected[2][1]) = 1
    /\ Len(result[1]) = 1
    /\ result[2][1].pos # result[1][1].pos

\* The same from two trajectories with the same position at the frame.
C4_WitnessTrajects ==
    /\ pc = "done" /\ path_seg /\ fn = "collect_particles_generic"
    /\ Len(selected) = 2
    /\ Len(result[1]) = 1
    /\ result[2][1].pos # result[1][1].pos

\* C10: from trajectories of strictly increasing times, in segment mode, a
\* trajectory contributes the pair (sample at frame, sample at frame + 1)
\* exactly if it holds the two frames at adjacent indices; the table
\* returned holds these pairs, one for each distinct position at frame.
C10_AdjacentPairs ==
    (pc = "done" /\ path_seg /\ fn = "collect_particles_generic") =>
        LET adj == NonZero([k \in 1..Len(trajects) |-> Adjacent(trajects[k], frame)])
            pairs == [n \in 1..Len(adj) |->
                        <<RowAt(trajects[adj[n]], frame), RowAt(trajects[adj[n]], frame + 1)>>]
        IN /\ Len(selected) = Len(adj)
           /\ \A n \in 1..Len(adj) :
                 selected[n] = <<(<<pairs[n][1]>>), (<<pairs[n][2]>>)>>
           /\ Len(result[1]) = Len(result[2])
           /\ \A i \in 1..Len(result[1]) : <<result[1][i], result[2][i]>> \in Range(pairs)
           /\ \A i, j \in 1..Len(result[1]) : i < j =>
                 /\ result[1][i].pos # result[1][j].pos
                 /\ result[1][i].traj < result[1][j].traj
           /\ \A n \in 1..Len(adj) : \E i \in 1..Len(result[1]) : result[1][i].pos = pairs[n][1].pos

\* Frame 1 asked for: trajectory 0 holds the frames 0, 1, 2 and trajectory 1
\* frame 1 only; the table holds trajectory 0 at frame 1 and at frame 2.
C10_Witness ==
    /\ pc = "done" /\ path_seg /\ fn = "collect_particles_generic"
    /\ frame = 1
    /\ Len(trajects) = 2
    /\ TrajTime(trajects[1]) = <<0, 1, 2>>
    /\ TrajTime(trajects[2]) = <<1>>
    /\ Len(result[1]) = 1 /\ Len(result[2]) = 1
    /\ result[1][1] = TrajItem(trajects[1], 2)
    /\ result[2][1] = TrajItem(trajects[1], 3)

\* C5: without segments, the table returned holds the position of every row
\* that stands in the file of a frame c <= frame with the age frame - c,
\* provided the files of c..frame all exist, whatever the frames between
\* contribute.
C5_AllAliveCollected ==
    (pc = "done" /\ ~path_seg) =>
        \A c \in 0..frame :
            (\A g \in c..frame : files[g + 1].exists) =>
                \A i \in 1..Len(files[c + 1].rows) :
                    files[c + 1].rows[i].age = frame - c =>
                        \E k \in 1..Len(result) : result[k].pos = files[c + 1].rows[i].pos

\* C6: a scan that ends at a frame without a file, the target frame
\* included, ends without an error and returns what it has accumulated.
C6_MissingFileEndsQuietly ==
    (fn = "collect_particles" /\ pc \in {"done", "error"} /\ cur_frame \notin Range(loaded))
        => pc = "done"

\* Nothing was selected from the k-th frame that was appended to selected.
NothingSelected(k) ==
    IF path_seg THEN Len(selected[k][1]) = 0 ELSE Len(selected[k]) = 0

\* C8: in either mode the scan stops at the first frame from which no row
\* is selected: no file of an earlier frame is loaded after it.
C8_StopsAtFirstEmptyFrame ==
    fn = "collect_particles" =>
        \A k \in 1..Len(selected) : NothingSelected(k) => Len(loaded) <= k

====
